---- MODULE Spec2Model ----
(***************************************************************************)
(* Lifecycle of the llama-server subprocess as driven by class Server of   *)
(* llama_cpp_server_python/_server.py: start, stop, wait_for_ready and the *)
(* context manager, together with the environment the code observes (the   *)
(* file system, the subprocess, the HTTP endpoint and the wall clock).     *)
(*                                                                         *)
(* One controller task calls the methods (pc is its position).  A call is  *)
(* a step that fixes the arguments (pc goes from "idle" to the method's    *)
(* name); the method's code then runs as one step, except for the polling  *)
(* loop of wait_for_ready, which takes one step per iteration.             *)
(***************************************************************************)
EXTENDS Integers, Sequences, FiniteSets

\* ---------------------------------------------------------------- bounds
\* Subprocesses one instance launches in a run of the model.
MaxSpawn == 3
\* Largest timeout argument passed explicitly, in clock units.
MaxTimeout == 2
\* Probes issued by one wait_for_ready call.
MaxProbes == 2
\* The same where the specification follows the polling loop alone.
MaxLongProbes == 4
\* Nesting depth of with-blocks on the instance.
MaxDepth == 1
\* Lines the watcher threads read from the streams over a run.
MaxLines == 2
\* Seconds per clock unit: the clock of the model is coarse, an iteration of
\* the polling loop (0.5 s of sleep plus the request) may or may not move it.
TimeUnit == 90

\* ------------------------------------------------------------- constants
\* timeout=180 of start and wait_for_ready, in seconds.
DefaultTimeoutSeconds == 180
DefaultTimeout == DefaultTimeoutSeconds \div TimeUnit

\* self._process = None
None == 0
\* requests.get raised requests.ConnectionError: no response, no status code.
ConnectionError == 0
\* requests.get raised an exception that is not a ConnectionError (a read
\* timeout after the 1.0 s of timeout=1.0): wait_for_ready does not catch it.
ReadTimeout == 1
\* Status codes a response can carry: one per class the code distinguishes.
StatusCodes == {200, 204, 304, 404, 503}
Outcomes == StatusCodes \cup {ConnectionError, ReadTimeout}
\* timeout arguments of explicit calls (a negative one is already elapsed).
Timeouts == (-1) .. MaxTimeout
Streams == {"stdout", "stderr"}
\* Loggers a caller can hand to the instance; "default" is the one __init__
\* gets from logging.getLogger.
Loggers == {"default", "custom"}

\* Defaults of the keyword arguments of __init__.
DefaultPort == 8080
DefaultGpuLayers == 0
DefaultCtxSize == 512
DefaultParallel == 8
\* 0x7fffffff, what n_gpu_layers = -1 stands for.
AllLayers == 2147483647

\* Argument values the configurations are drawn from.
Ports == {DefaultPort, 6000}
GpuLayerArgs == {-1, DefaultGpuLayers, 33}
CtxSizes == {1, DefaultCtxSize, 1024}
Parallels == {1, DefaultParallel, 10}

\* The fields __init__ derives from its arguments (the two paths apart).
NewConfig(port, n_gpu_layers, ctx_size, parallel, cont_batching) ==
    [port |-> port,
     ctx_size |-> ctx_size,
     parallel |-> parallel,
     cont_batching |-> cont_batching,
     ngl |-> IF n_gpu_layers = -1 THEN AllLayers ELSE n_gpu_layers]

Configs ==
    {NewConfig(p, g, c, n, b) :
        p \in Ports, g \in GpuLayerArgs, c \in CtxSizes, n \in Parallels,
        b \in BOOLEAN}

DefaultConfig ==
    NewConfig(DefaultPort, DefaultGpuLayers, DefaultCtxSize, DefaultParallel,
              TRUE)

\* --------------------------------------------------------- the command
\* An argument of the command line is a sequence of pieces of text: a word
\* as one piece, a number as its decimal digits.
Digits == <<"0", "1", "2", "3", "4", "5", "6", "7", "8", "9">>

\* f"{n}" for a natural number n.
RECURSIVE Str(_)
Str(n) ==
    IF n < 10
    THEN <<Digits[n + 1]>>
    ELSE Str(n \div 10) \o <<Digits[(n % 10) + 1]>>

\* Variant: the context size of one request is passed on as it is.
command_args_per_request(c) ==
    <<  <<"binary_path">>,
        <<"--model">>, <<"model_path">>,
        <<"--port">>, Str(c.port),
        <<"--ctx_size">>, Str(c.ctx_size),
        <<"--parallel">>, Str(c.parallel),
        <<"-ngl">>, Str(c.ngl),
        <<"--split-mode">>, <<"row">> >>
    \o (IF c.cont_batching THEN << <<"--cont_batching">> >> ELSE <<>>)

\* Server._command
command_args(c) ==
    <<  <<"binary_path">>,
        <<"--model">>, <<"model_path">>,
        <<"--port">>, Str(c.port),
        <<"--ctx_size">>, Str(c.ctx_size * c.parallel),
        <<"--parallel">>, Str(c.parallel),
        <<"-ngl">>, Str(c.ngl),
        <<"--split-mode">>, <<"row">> >>
    \o (IF c.cont_batching THEN << <<"--cont_batching">> >> ELSE <<>>)

VARIABLES
    binary_exists,  \* self.binary_path.exists()
    model_exists,   \* self.model_path.exists()
    process,        \* self._process: None or the subprocess of the handle
    alive,          \* subprocesses launched by the instance and still running
    spawned,        \* number of subprocesses launched so far (the last pid)
    threads,        \* stream-watcher threads still running, <<pid, stream>>
    status,         \* self._process._status
    pc,             \* position of the controller task
    op,             \* the outermost call in progress, or the last one made
    wait,           \* argument wait of start
    timeout,        \* argument timeout of start / wait_for_ready
    scope,          \* with-blocks on the instance the controller is inside
    exc,            \* the with-body was left by an exception
    result,         \* outcome of op: "pending", "ok" or the exception raised
    clock,          \* time.time(), measured from the call of op
    deadline,       \* local deadline of wait_for_ready
    probes,         \* outcomes of the probes of the current wait_for_ready
    config,         \* the fields __init__ sets from its arguments
    command,        \* argument list of the last Popen
    logger,         \* self._logger
    handle_logger,  \* self._process.logger
    received,       \* lines each logger has been given
    printed         \* lines echoed by print

vars == <<binary_exists, model_exists, process, alive, spawned, threads,
          status, pc, op, wait, timeout, scope, exc, result, clock, deadline,
          probes, config, command, logger, handle_logger, received, printed>>

envVars == <<binary_exists, model_exists>>
cfgVars == <<config>>
logVars == <<logger, received, printed>>
procVars == <<process, alive, spawned, threads, status, handle_logger,
              command>>
callVars == <<op, wait, timeout, exc>>
waitVars == <<clock, deadline, probes>>

Results == {"pending", "ok", "AlreadyRunning", "FileNotFoundError",
            "NotRunning", "TimeoutError", "HTTPError", "ReadTimeout",
            "AttributeError", "UnexpectedExit"}

TypeOK ==
    /\ binary_exists \in BOOLEAN /\ model_exists \in BOOLEAN
    /\ spawned \in 0 .. MaxSpawn
    /\ process \in 0 .. spawned
    /\ alive \subseteq 1 .. spawned
    /\ threads \subseteq (1 .. spawned) \X Streams
    /\ status \in {"none", "starting", "running"}
    /\ pc \in {"idle", "start", "stop", "wait_for_ready", "poll",
              "check_not_exited", "handle_wait", "handle_poll",
              "init_status", "join_stdout", "join_stderr", "detach"}
    /\ op \in {"none", "start", "stop", "wait_for_ready", "enter", "exit",
              "check_not_exited", "handle_wait"}
    /\ wait \in BOOLEAN /\ exc \in BOOLEAN
    /\ timeout \in Timeouts \cup {DefaultTimeout}
    /\ scope \in 0 .. MaxDepth
    /\ result \in Results
    /\ clock \in Nat /\ deadline \in Int
    /\ probes \in Seq(Outcomes) /\ Len(probes) <= MaxLongProbes
    /\ config \in Configs
    /\ command \in {<<>>, command_args(config)}
    /\ logger \in Loggers
    /\ handle_logger \in Loggers \cup {"none"}
    /\ received \in [Loggers -> Nat]
    /\ printed \in Nat

\* State after Server.__init__ with configuration c: _check_resources
\* passed, the logger is the default one, no process is attached.
Constructed(c) ==
    /\ config = c
    /\ command = <<>>
    /\ logger = "default" /\ handle_logger = "none"
    /\ received = [l \in Loggers |-> 0] /\ printed = 0
    /\ binary_exists = TRUE /\ model_exists = TRUE
    /\ process = None /\ alive = {} /\ spawned = 0 /\ threads = {}
    /\ status = "none"
    /\ pc = "idle" /\ op = "none" /\ wait = TRUE /\ timeout = DefaultTimeout
    /\ scope = 0 /\ exc = FALSE /\ result = "ok"
    /\ clock = 0 /\ deadline = 0 /\ probes = <<>>

\* Server(binary_path=..., model_path=...): every other argument defaulted.
Init == Constructed(DefaultConfig)

\* ------------------------------------------------------------ the calls
\* The controller calls method m with arguments w, t (the defaults where the
\* method takes none); the clock of the call starts at 0.
Call(m, o, w, t, e) ==
    /\ pc = "idle"
    /\ pc' = m /\ op' = o /\ wait' = w /\ timeout' = t /\ exc' = e
    /\ result' = "pending"
    /\ clock' = 0 /\ deadline' = 0 /\ probes' = <<>>
    /\ UNCHANGED <<envVars, cfgVars, logVars, procVars, scope>>

\* The outermost call returns (res = "ok") or raises res.  __enter__ hands
\* the instance to the with-body only when start returned; __exit__ leaves
\* the with-block.
Finish(res) ==
    /\ pc' = "idle"
    /\ result' = res
    /\ scope' = IF op = "enter" /\ res = "ok" THEN scope + 1
                ELSE IF op = "exit" THEN scope - 1
                ELSE scope

CallStart ==
    \E w \in BOOLEAN, t \in Timeouts :
        /\ spawned < MaxSpawn
        /\ Call("start", "start", w, t, FALSE)

CallStop == Call("stop", "stop", TRUE, DefaultTimeout, FALSE)

CallWaitForReady ==
    \E t \in Timeouts : Call("wait_for_ready", "wait_for_ready", TRUE, t, FALSE)

\* __enter__: self.start() with the default arguments.
enter ==
    /\ scope < MaxDepth
    /\ spawned < MaxSpawn
    /\ Call("start", "enter", TRUE, DefaultTimeout, FALSE)

\* __exit__: self.stop(), whether the body completed (raised = FALSE) or
\* raised; the return value None lets the exception propagate.
exit ==
    \E raised \in BOOLEAN :
        /\ scope > 0
        /\ Call("stop", "exit", TRUE, DefaultTimeout, raised)

\* ------------------------------------------------------ the subprocess
\* Variant: only the binary is looked for.
check_binary_only == binary_exists

\* _check_resources: both paths exist (otherwise FileNotFoundError).
check_resources == binary_exists /\ model_exists

\* Variant: start without its guard.
NeverAttached == FALSE

\* The guard of start: a handle is attached.
AlreadyAttached == process # None

\* _RunningServerProcess.__init__: Popen launches the subprocess, the two
\* watcher threads start, the status is "starting"; start attaches the handle.
Launch ==
    /\ spawned' = spawned + 1
    /\ alive' = alive \cup {spawned + 1}
    /\ threads' = threads \cup ({spawned + 1} \X Streams)
    /\ status' = "starting"
    /\ handle_logger' = logger
    /\ command' = command_args(config)
    /\ process' = spawned + 1

\* Variant: the threads are joined, the subprocess is not killed.
JoinOnly(p) ==
    /\ alive' = alive
    /\ threads' = {t \in threads : t[1] # p}

\* _RunningServerProcess.stop on the handle of subprocess p: popen.kill(),
\* then join of both watcher threads (the kill closes both streams).
KillAndJoin(p) ==
    /\ alive' = alive \ {p}
    /\ threads' = {t \in threads : t[1] # p}

\* Variant: the handle is dropped, its stop is not called.
DetachOnly ==
    /\ process' = None
    /\ status' = "none"
    /\ handle_logger' = "none"
    /\ UNCHANGED <<alive, threads, spawned, command>>

\* Variant: the handle is stopped and stays attached.
StopNoDetach ==
    /\ KillAndJoin(process)
    /\ UNCHANGED <<process, status, spawned, handle_logger, command>>

\* Server.stop after the None check: stop the handle, then detach it.
StopAttached ==
    /\ KillAndJoin(process)
    /\ process' = None
    /\ status' = "none"
    /\ handle_logger' = "none"
    /\ UNCHANGED <<spawned, command>>

\* -------------------------------------------------------- wait_for_ready
\* Response.raise_for_status(): raises HTTPError for 4xx and 5xx only.
raise_for_status(code) == code >= 400 /\ code < 600

\* Variant: 503 is not exempted from raise_for_status.
ProbeResultNo503(o) ==
    IF o = ReadTimeout THEN "ReadTimeout"
    ELSE IF o = ConnectionError THEN "continue"
    ELSE IF o = 200 THEN "ok"
    ELSE IF raise_for_status(o) THEN "HTTPError"
    ELSE "continue"

\* Variant: the loop takes the handle's status for readiness.
ProbeResultByStatus(o) ==
    IF status = "running" THEN "ok"
    ELSE IF o = ReadTimeout THEN "ReadTimeout"
    ELSE IF o = ConnectionError THEN "continue"
    ELSE IF o = 200 THEN "ok"
    ELSE IF o \notin {503} /\ raise_for_status(o) THEN "HTTPError"
    ELSE "continue"

\* One iteration of the loop of wait_for_ready on probe outcome o: "ok" is
\* the return, "continue" the sleep and the next iteration, anything else the
\* exception that leaves the method.
ProbeResult(o) ==
    IF o = ReadTimeout THEN "ReadTimeout"
    ELSE IF o = ConnectionError THEN "continue"
    ELSE IF o = 200 THEN "ok"
    ELSE IF o \notin {503} /\ raise_for_status(o) THEN "HTTPError"
    ELSE "continue"

\* while time.time() < deadline
BeforeDeadline == clock < deadline

\* Entry of wait_for_ready with self._process = p: NotRunning without a
\* handle, otherwise the deadline is set and the loop begins.
WaitEntry(p) ==
    IF p = None
    THEN Finish("NotRunning") /\ UNCHANGED waitVars
    ELSE /\ pc' = "poll"
         /\ deadline' = clock + timeout
         /\ UNCHANGED <<result, scope, clock, probes>>

\* Server.start
start ==
    /\ pc = "start"
    /\ IF AlreadyAttached
       THEN Finish("AlreadyRunning") /\ UNCHANGED <<procVars, waitVars>>
       ELSE IF ~check_resources
       THEN Finish("FileNotFoundError") /\ UNCHANGED <<procVars, waitVars>>
       ELSE /\ Launch
            /\ IF wait
               THEN WaitEntry(process')
               ELSE Finish("ok") /\ UNCHANGED waitVars
    /\ UNCHANGED <<envVars, cfgVars, logVars, callVars>>

\* The guard of stop: no handle is attached.
Detached == process = None

\* Variant: stop without its guard, self._process.stop() on None.
stop_unguarded ==
    /\ pc = "stop"
    /\ IF process = None
       THEN Finish("AttributeError") /\ UNCHANGED procVars
       ELSE StopAttached /\ Finish("ok")
    /\ UNCHANGED <<envVars, cfgVars, logVars, callVars, waitVars>>

\* Server.stop
stop ==
    /\ pc = "stop"
    /\ IF Detached
       THEN UNCHANGED procVars
       ELSE StopAttached
    /\ Finish("ok")
    /\ UNCHANGED <<envVars, cfgVars, logVars, callVars, waitVars>>

\* Server.wait_for_ready called by the controller.
wait_for_ready ==
    /\ pc = "wait_for_ready"
    /\ WaitEntry(process)
    /\ UNCHANGED <<envVars, cfgVars, logVars, procVars, callVars>>

\* Variant: the loop stops the handle before it raises one of errs.
PollStopping(n, errs) ==
    /\ pc = "poll"
    /\ IF BeforeDeadline
       THEN \E o \in Outcomes, d \in 0 .. 1 :
              /\ ProbeResult(o) = "continue"
                    => deadline - (clock + d) <= n - (Len(probes) + 1)
              /\ probes' = Append(probes, o)
              /\ clock' = clock + d
              /\ IF ProbeResult(o) = "continue"
                 THEN UNCHANGED <<pc, result, scope>>
                 ELSE Finish(ProbeResult(o))
              /\ IF ProbeResult(o) \in errs
                 THEN StopAttached
                 ELSE UNCHANGED procVars
       ELSE /\ Finish("TimeoutError") /\ UNCHANGED <<clock, probes>>
            /\ IF "TimeoutError" \in errs
               THEN StopAttached
               ELSE UNCHANGED procVars
    /\ UNCHANGED <<envVars, cfgVars, logVars, callVars, deadline>>

PollStopOnTimeout(n) == PollStopping(n, {"TimeoutError"})

PollStopOnHTTPError(n) == PollStopping(n, {"HTTPError"})

\* One evaluation of the loop condition and, before the deadline, one probe
\* with its outcome o; the iteration moves the coarse clock by d units.
\* n caps the probes of one call: an iteration that goes on to the next one
\* leaves the clock alone only while enough probes remain to reach the
\* deadline.
PollWithin(n) ==
    /\ pc = "poll"
    /\ IF BeforeDeadline
       THEN \E o \in Outcomes, d \in 0 .. 1 :
              /\ ProbeResult(o) = "continue"
                    => deadline - (clock + d) <= n - (Len(probes) + 1)
              /\ probes' = Append(probes, o)
              /\ clock' = clock + d
              /\ IF ProbeResult(o) = "continue"
                 THEN UNCHANGED <<pc, result, scope>>
                 ELSE Finish(ProbeResult(o))
       ELSE Finish("TimeoutError") /\ UNCHANGED <<clock, probes>>
    /\ UNCHANGED <<envVars, cfgVars, logVars, procVars, callVars,
                   deadline>>

Poll == PollWithin(MaxProbes)

PollLong == PollWithin(MaxLongProbes)

\* ------------------------------------------- the methods of the handle
\* No method of Server calls _check_not_exited or the handle's own
\* wait_for_ready; here the controller calls them on the attached handle.
CallCheckNotExited ==
    /\ process # None
    /\ Call("check_not_exited", "check_not_exited", TRUE, DefaultTimeout, FALSE)

CallHandleWait ==
    \E t \in Timeouts :
        /\ process # None
        /\ Call("handle_wait", "handle_wait", TRUE, t, FALSE)

\* _check_not_exited on the handle of subprocess p, which popen.poll() finds
\* terminated: self.stop(), then RuntimeError with the exit code.  _status
\* is not written and the handle stays where Server holds it.
StopExited(p) ==
    /\ KillAndJoin(p)
    /\ UNCHANGED <<process, spawned, status, handle_logger, command>>

\* _RunningServerProcess._check_not_exited
check_not_exited ==
    /\ pc = "check_not_exited"
    /\ IF process \in alive
       THEN Finish("ok") /\ UNCHANGED procVars
       ELSE StopExited(process) /\ Finish("UnexpectedExit")
    /\ UNCHANGED <<envVars, cfgVars, logVars, callVars, waitVars>>

\* _RunningServerProcess.wait_for_ready up to its loop: return at once when
\* the status is "running", otherwise note the start time.
handle_wait_for_ready ==
    /\ pc = "handle_wait"
    /\ IF status = "running"
       THEN Finish("ok") /\ UNCHANGED waitVars
       ELSE /\ pc' = "handle_poll"
            /\ deadline' = clock + timeout
            /\ UNCHANGED <<result, scope, clock, probes>>
    /\ UNCHANGED <<envVars, cfgVars, logVars, procVars, callVars>>

\* One evaluation of the loop condition of the handle's wait_for_ready and,
\* within the timeout, one iteration: _check_not_exited, the look at the
\* status, the sleep of 0.1 s, which moves the coarse clock by d units.
HandlePoll ==
    /\ pc = "handle_poll"
    /\ IF BeforeDeadline
       THEN IF process \notin alive
            THEN /\ StopExited(process) /\ Finish("UnexpectedExit")
                 /\ UNCHANGED clock
            ELSE /\ UNCHANGED procVars
                 /\ IF status = "running"
                    THEN Finish("ok") /\ UNCHANGED clock
                    ELSE /\ \E d \in 0 .. 1 : clock' = clock + d
                         /\ UNCHANGED <<pc, result, scope>>
       ELSE Finish("TimeoutError") /\ UNCHANGED <<procVars, clock>>
    /\ UNCHANGED <<envVars, cfgVars, logVars, callVars, deadline, probes>>

\* ------------------------------------------------------- the environment
\* The subprocess terminates on its own.
ProcessExits ==
    \E p \in alive :
        /\ alive' = alive \ {p}
        /\ UNCHANGED <<envVars, cfgVars, logVars, process, spawned, threads,
                       status, handle_logger, command, pc, callVars, scope,
                       result, waitVars>>

\* The handle whose _status the watcher threads write: the attached one, or
\* the one whose constructor is running.
Handle == IF pc = "init_status" THEN spawned ELSE process

\* watch, one iteration of "for line in file" in a watcher thread of the
\* handle: a line with "HTTP server listening" (marker) sets the
\* status, and the line is echoed by print.  Neither self.logger nor any other
\* logger is used.
WatcherReads(marker) ==
    \E t \in threads :
        /\ t[1] = Handle /\ t[1] \in alive
        /\ printed < MaxLines
        /\ status' = IF marker THEN "running" ELSE status
        /\ printed' = printed + 1
        /\ UNCHANGED <<envVars, cfgVars, logger, received, process, alive,
                       spawned, threads, handle_logger, command, pc, callVars,
                       scope, result, waitVars>>

\* watch reads the line containing "HTTP server listening" the subprocess
\* writes when its listener starts.
WatcherSeesMarker == status = "starting" /\ WatcherReads(TRUE)

\* watch reads any line.
WatcherReadsLine == \E marker \in BOOLEAN : WatcherReads(marker)

\* watch: the stream of a terminated subprocess ends, the thread returns.
WatcherEnds ==
    \E t \in threads :
        /\ t[1] \notin alive
        /\ threads' = threads \ {t}
        /\ UNCHANGED <<envVars, cfgVars, logVars, process, alive, spawned,
                       status, handle_logger, command, pc, callVars, scope,
                       result, waitVars>>

\* A file the instance needs is deleted or put back.  Only start looks at the
\* files, so a change during a call is taken when the call has ended.
ResourceChanges ==
    /\ pc = "idle"
    /\ \E b \in BOOLEAN, m \in BOOLEAN :
          /\ <<b, m>> # <<binary_exists, model_exists>>
          /\ binary_exists' = b /\ model_exists' = m
    /\ UNCHANGED <<cfgVars, logVars, procVars, pc, callVars, scope, result,
                   waitVars>>

Next ==
    \/ CallStart
    \/ CallStop
    \/ CallWaitForReady
    \/ enter
    \/ exit
    \/ start
    \/ stop
    \/ wait_for_ready
    \/ Poll
    \/ ProcessExits
    \/ WatcherSeesMarker
    \/ WatcherEnds
    \/ ResourceChanges

Spec == Init /\ [][Next]_vars

\* The polling loop followed over longer probe sequences: the calls that reach
\* it and the subprocess terminating under it, nothing else of the environment.
NextPolling ==
    \/ CallStart
    \/ CallStop
    \/ CallWaitForReady
    \/ start
    \/ stop
    \/ wait_for_ready
    \/ PollLong
    \/ ProcessExits

SpecPolling == Init /\ [][NextPolling]_vars

\* The handle's own methods called between those of Server.
NextHandle ==
    \/ CallStart
    \/ CallStop
    \/ CallCheckNotExited
    \/ CallHandleWait
    \/ start
    \/ stop
    \/ Poll
    \/ check_not_exited
    \/ handle_wait_for_ready
    \/ HandlePoll
    \/ ProcessExits
    \/ WatcherSeesMarker
    \/ WatcherEnds

SpecHandle == Init /\ [][NextHandle]_vars

\* The command built for every configuration __init__ accepts: instances of
\* any configuration, started and stopped.
InitCommand == \E c \in Configs : Constructed(c)

NextCommand ==
    \/ CallStart
    \/ CallStop
    \/ start
    \/ stop
    \/ Poll

SpecCommand == InitCommand /\ [][NextCommand]_vars

\* The logger property assigned by the controller, between calls.
SetLogger ==
    \E l \in Loggers :
        /\ pc = "idle"
        /\ l # logger
        /\ logger' = l
        /\ handle_logger' = IF process # None THEN l ELSE handle_logger
        /\ UNCHANGED <<envVars, cfgVars, received, printed, process, alive,
                       spawned, threads, status, command, pc, callVars, scope,
                       result, waitVars>>

\* The output of the subprocess and the logger: starts, stops, the logger
\* swapped, the watcher threads reading lines.
NextLogging ==
    \/ CallStart
    \/ CallStop
    \/ start
    \/ stop
    \/ Poll
    \/ SetLogger
    \/ WatcherReadsLine
    \/ ProcessExits
    \/ WatcherEnds

SpecLogging == Init /\ [][NextLogging]_vars

\* Server.start followed into the constructor of the handle, up to the start
\* of the watcher threads (lines 243-247): the subprocess runs, its threads
\* read, _status is not assigned yet and the handle is not attached yet.
start_launch ==
    /\ pc = "start"
    /\ IF AlreadyAttached
       THEN Finish("AlreadyRunning") /\ UNCHANGED procVars
       ELSE IF ~check_resources
       THEN Finish("FileNotFoundError") /\ UNCHANGED procVars
       ELSE /\ spawned' = spawned + 1
            /\ alive' = alive \cup {spawned + 1}
            /\ threads' = threads \cup ({spawned + 1} \X Streams)
            /\ handle_logger' = logger
            /\ command' = command_args(config)
            /\ pc' = "init_status"
            /\ UNCHANGED <<process, status, result, scope>>
    /\ UNCHANGED <<envVars, cfgVars, logVars, callVars, waitVars>>

\* The rest of the constructor and of Server.start: self._status = "starting"
\* (line 248), the handle is attached (line 172), then the wait if asked for.
init_status ==
    /\ pc = "init_status"
    /\ status' = "starting"
    /\ process' = spawned
    /\ IF wait
       THEN WaitEntry(process')
       ELSE Finish("ok") /\ UNCHANGED waitVars
    /\ UNCHANGED <<envVars, cfgVars, logVars, callVars, alive, spawned,
                   threads, handle_logger, command>>

\* The launching task and the watcher threads interleaved.
NextLaunch ==
    \/ CallStart
    \/ CallStop
    \/ start_launch
    \/ init_status
    \/ stop
    \/ Poll
    \/ WatcherReadsLine
    \/ ProcessExits
    \/ WatcherEnds

SpecLaunch == Init /\ [][NextLaunch]_vars

\* Variant: the thread is not joined.
NotJoined(p, stream) == TRUE

\* thread.join() on the watcher of a stream of subprocess p returns: the
\* thread has ended.
Joined(p, stream) == <<p, stream>> \notin threads

\* Server.stop followed statement by statement.  The None check, then
\* popen.kill() on the attached handle.
stop_kill ==
    /\ pc = "stop"
    /\ IF Detached
       THEN Finish("ok") /\ UNCHANGED alive
       ELSE /\ alive' = alive \ {process}
            /\ pc' = "join_stdout"
            /\ UNCHANGED <<result, scope>>
    /\ UNCHANGED <<envVars, cfgVars, logVars, callVars, waitVars, process,
                   spawned, threads, status, handle_logger, command>>

\* for thread in self._logging_threads: thread.join(), the stdout watcher.
stop_join_stdout ==
    /\ pc = "join_stdout"
    /\ Joined(process, "stdout")
    /\ pc' = "join_stderr"
    /\ UNCHANGED <<envVars, cfgVars, logVars, procVars, callVars, waitVars,
                   result, scope>>

\* thread.join(), the stderr watcher.
stop_join_stderr ==
    /\ pc = "join_stderr"
    /\ Joined(process, "stderr")
    /\ pc' = "detach"
    /\ UNCHANGED <<envVars, cfgVars, logVars, procVars, callVars, waitVars,
                   result, scope>>

\* self._process = None, and stop returns.
stop_detach ==
    /\ pc = "detach"
    /\ process' = None
    /\ status' = "none"
    /\ handle_logger' = "none"
    /\ Finish("ok")
    /\ UNCHANGED <<envVars, cfgVars, logVars, callVars, waitVars, alive,
                   spawned, threads, command>>

StopSteps == stop_kill \/ stop_join_stdout \/ stop_join_stderr \/ stop_detach

\* Starts and statement-by-statement stops, the subprocess and its watcher
\* threads ending under them.
NextStop ==
    \/ CallStart
    \/ CallStop
    \/ start
    \/ Poll
    \/ stop_kill
    \/ stop_join_stdout
    \/ stop_join_stderr
    \/ stop_detach
    \/ ProcessExits
    \/ WatcherEnds

\* The thread that called stop keeps running, and the streams of a terminated
\* subprocess reach their end, which ends the watcher threads.
SpecStop ==
    /\ Init
    /\ [][NextStop]_vars
    /\ WF_vars(StopSteps)
    /\ WF_vars(WatcherEnds)

\* ================================================================ claims
\* The controller has just taken a step out of method m.
Leaves(m) == pc = m /\ pc' # m

\* The polling loop of the last call ran and the call has ended.
LoopEnded ==
    /\ pc = "idle"
    /\ op \in {"start", "enter", "wait_for_ready"}
    /\ wait
    /\ result \in {"ok", "TimeoutError", "HTTPError", "ReadTimeout"}

\* A probe outcome the loop treats as not yet ready.
NotReady(o) == o \in {ConnectionError, 503}

\* A success status in the sense of the HTTP probe interface: any 2xx.
IsSuccess(o) == o >= 200 /\ o < 300

\* C1: once __exit__ has returned, whether the with-body completed or raised,
\* no handle is attached, no subprocess of the instance is running and no
\* watcher thread is left.
C1_ScopeExitStops ==
    (pc = "idle" /\ op = "exit")
        => (process = None /\ alive = {} /\ threads = {} /\ result = "ok")

\* The with-body raised while the subprocess was attached, and the block has
\* been left.
C1_Witness ==
    /\ pc = "idle" /\ op = "exit" /\ exc /\ scope = 0
    /\ spawned > 0 /\ process = None /\ alive = {}

\* C2: whenever control has left the with-statement, through __exit__ or
\* through a start that raised in __enter__ after launching the subprocess
\* (timeout or HTTP error), no subprocess of the instance is alive or attached.
C2_ScopedUseNeverLeaks ==
    (/\ pc = "idle" /\ scope = 0
     /\ \/ op = "exit"
        \/ op = "enter" /\ result \in {"TimeoutError", "HTTPError"})
        => (process = None /\ alive = {})

\* C3: start with a handle attached raises AlreadyRunning, launches nothing
\* and leaves the handle, the subprocess and its threads as they were.
C3_StartWhileAttached ==
    [][(Leaves("start") /\ process # None)
          => (/\ pc' = "idle" /\ result' = "AlreadyRunning"
              /\ UNCHANGED <<process, alive, spawned, threads, status>>)]_vars

\* start has failed with AlreadyRunning and the original subprocess runs on.
C3_Witness ==
    /\ pc = "idle" /\ op = "start" /\ result = "AlreadyRunning"
    /\ process # None /\ process \in alive

\* C4: at most one subprocess of the instance is alive, and a live one is
\* the one the attached handle refers to.
C4_AtMostOneLive ==
    /\ Cardinality(alive) <= 1
    /\ \A p \in alive : p = process

\* A second subprocess has been launched and is the only live one.
C4_Witness ==
    /\ spawned >= 2 /\ alive = {process} /\ process = spawned

\* C5: stop leaves the instance detached, and start on a detached instance
\* with both files present does not raise AlreadyRunning and launches a
\* subprocess that was not running before, attached and alive.
C5_StopThenStart ==
    [][/\ Leaves("stop") => (pc' = "idle" /\ process' = None)
       /\ (Leaves("start") /\ process = None /\ binary_exists /\ model_exists)
             => (/\ result' # "AlreadyRunning"
                 /\ spawned' = spawned + 1
                 /\ process' = spawned' /\ process' \notin alive
                 /\ alive' = alive \cup {process'})]_vars

\* The last subprocess the bound allows runs: start, stop, start, stop, start.
C5_Witness ==
    /\ spawned = MaxSpawn /\ op = "start" /\ result = "ok"
    /\ process = spawned /\ process \in alive

\* C6: stop without an attached handle returns normally and changes neither
\* the instance nor any subprocess or thread.
C6_StopDetachedNoOp ==
    [][(Leaves("stop") /\ process = None)
          => (/\ pc' = "idle" /\ result' = "ok"
              /\ UNCHANGED <<envVars, procVars>>)]_vars

\* stop has returned on an instance that was never started.
C6_Witness ==
    /\ pc = "idle" /\ op = "stop" /\ result = "ok"
    /\ spawned = 0 /\ process = None

\* C7: start on a detached instance with the binary or the model missing
\* raises FileNotFoundError, launches nothing and leaves the instance
\* detached; with both present it attaches a subprocess.
C7_StartMissingResource ==
    [][/\ (Leaves("start") /\ process = None
              /\ ~(binary_exists /\ model_exists))
             => (/\ pc' = "idle" /\ result' = "FileNotFoundError"
                 /\ UNCHANGED procVars)
       /\ (Leaves("start") /\ process = None
              /\ binary_exists /\ model_exists)
             => (result' # "FileNotFoundError" /\ process' # None)]_vars

\* start has failed on a missing model although subprocesses were launched
\* before, when the files were there.
C7_Witness ==
    /\ pc = "idle" /\ op = "start" /\ result = "FileNotFoundError"
    /\ binary_exists /\ ~model_exists
    /\ spawned > 0 /\ process = None /\ alive = {}

\* C8: a 200 ends the wait with success at once (no probe follows it); a wait
\* whose probes were all connection errors or 503 ends with TimeoutError, and
\* only at or after the deadline; success is returned on a 200 only.
C8_ReadinessProbing ==
    /\ \A i \in 1 .. Len(probes) :
          probes[i] = 200
             => (i = Len(probes) /\ pc = "idle" /\ result = "ok")
    /\ (LoopEnded /\ \A i \in 1 .. Len(probes) : NotReady(probes[i]))
          => (result = "TimeoutError" /\ clock >= deadline)
    /\ (pc = "poll" /\ \A i \in 1 .. Len(probes) : NotReady(probes[i]))
          => result = "pending"
    /\ (LoopEnded /\ result = "ok")
          => (probes # <<>> /\ probes[Len(probes)] = 200)

\* [connection-refused, connection-refused, 503, 200] before the deadline.
C8_Witness ==
    /\ LoopEnded /\ result = "ok" /\ clock < deadline
    /\ probes = <<ConnectionError, ConnectionError, 503, 200>>

\* C9: a response whose status is neither a success status nor 503 ends the
\* wait at once with HTTPError: it is the last probe of the call.
C9_UnexpectedStatusFails ==
    \A i \in 1 .. Len(probes) :
        (probes[i] \in StatusCodes /\ ~IsSuccess(probes[i]) /\ probes[i] # 503)
            => (i = Len(probes) /\ pc = "idle" /\ result = "HTTPError")

\* C10: a response with any 2xx status ends the wait at once with success.
C10_AnySuccessStatusReturns ==
    \A i \in 1 .. Len(probes) :
        (probes[i] \in StatusCodes /\ IsSuccess(probes[i]))
            => (i = Len(probes) /\ pc = "idle" /\ result = "ok")

\* The controller has just taken a step of the polling loop: a probe, or the
\* end of the call.
PollStep == pc = "poll" /\ (pc' = "idle" \/ probes' # probes)

\* C11: a wait that ends with TimeoutError, in start or called by itself,
\* kills nothing and changes nothing of the handle, which stays attached, and
\* no iteration before it did.
C11_TimeoutLeavesProcess ==
    [][/\ (PollStep /\ pc' = "idle" /\ result' = "TimeoutError")
             => (process' # None /\ UNCHANGED <<envVars, procVars>>)
       /\ (PollStep /\ pc' = "poll") => UNCHANGED <<envVars, procVars>>]_vars

\* start(wait=True) has timed out after probing; its subprocess runs on,
\* attached.
C11_Witness ==
    /\ pc = "idle" /\ op = "start" /\ wait /\ result = "TimeoutError"
    /\ probes # <<>> /\ process # None /\ process \in alive

\* C17: a step of start's polling loop taken before the deadline, after the
\* subprocess has exited, ends the call with UnexpectedExit: the dead process
\* is not probed again and the call does not end with a timeout.
C17_StartDetectsExit ==
    [][(PollStep /\ op \in {"start", "enter"} /\ process \notin alive
           /\ clock < deadline)
          => (pc' = "idle" /\ result' = "UnexpectedExit")]_vars

\* What wait_for_ready makes of one probe outcome, as a function of the
\* outcome alone.
C19_Outcome(o) ==
    CASE o = ReadTimeout -> "ReadTimeout"
      [] o = ConnectionError -> "continue"
      [] o = 200 -> "ok"
      [] o = 503 -> "continue"
      [] OTHER -> IF raise_for_status(o) THEN "HTTPError" ELSE "continue"

\* C19: what a step of the polling loop does is a function of the clock, the
\* deadline and the probe's outcome, whatever the status of the handle, and
\* the step leaves the status alone.
C19_ProberIgnoresStatus ==
    [][PollStep
          => /\ status' = status
             /\ IF clock >= deadline
                THEN pc' = "idle" /\ result' = "TimeoutError"
                     /\ probes' = probes
                ELSE /\ Len(probes') = Len(probes) + 1
                     /\ LET r == C19_Outcome(probes'[Len(probes')])
                        IN  IF r = "continue"
                            THEN pc' = "poll" /\ result' = result
                            ELSE pc' = "idle" /\ result' = r]_vars

\* The wait has timed out although a watcher had seen the listener's marker.
C19_Witness ==
    /\ LoopEnded /\ result = "TimeoutError" /\ probes # <<>>
    /\ status = "running" /\ process \in alive

\* C20: a wait of start that ends with HTTPError kills nothing and leaves the
\* handle attached; start on an attached instance raises AlreadyRunning and
\* changes nothing; stop on an attached instance kills the subprocess of the
\* handle and detaches it.
C20_HTTPErrorLeavesProcess ==
    [][/\ (PollStep /\ pc' = "idle" /\ result' = "HTTPError")
             => (process' # None /\ UNCHANGED <<envVars, procVars>>)
       /\ (Leaves("start") /\ process # None)
             => (result' = "AlreadyRunning" /\ UNCHANGED procVars)
       /\ (Leaves("stop") /\ process # None)
             => (process \notin alive' /\ process' = None)]_vars

\* start(wait=True) has failed on a 404; its subprocess runs on, attached.
C20_Witness ==
    /\ pc = "idle" /\ op = "start" /\ wait /\ result = "HTTPError"
    /\ probes = <<404>> /\ process # None /\ process \in alive

\* C12: once UnexpectedExit has been reported, no handle is attached.
C12_ExitLeavesDetached ==
    (pc = "idle" /\ result = "UnexpectedExit") => process = None

\* C16: _check_not_exited on a handle whose subprocess has exited sets its
\* status to exited-unexpectedly, leaves no subprocess and no watcher thread
\* of the handle, and raises; on a live one it returns and changes nothing.
C16_CheckAlive ==
    [][Leaves("check_not_exited")
          => IF process \in alive
             THEN pc' = "idle" /\ result' = "ok" /\ UNCHANGED procVars
             ELSE /\ pc' = "idle" /\ result' = "UnexpectedExit"
                  /\ status' = "exited-unexpectedly"
                  /\ process \notin alive'
                  /\ \A t \in threads' : t[1] # process]_vars

\* The number an argument of decimal digits stands for.
DigitValue(ch) == CHOOSE d \in 0 .. 9 : Digits[d + 1] = ch

RECURSIVE Val(_)
Val(a) ==
    IF Len(a) = 1
    THEN DigitValue(a[1])
    ELSE 10 * Val(SubSeq(a, 1, Len(a) - 1)) + DigitValue(a[Len(a)])

HasFlag(cmd, flag) == \E i \in 1 .. Len(cmd) : cmd[i] = <<flag>>

\* The argument that follows flag in cmd.
ArgAfter(cmd, flag) ==
    cmd[(CHOOSE i \in 1 .. Len(cmd) - 1 : cmd[i] = <<flag>>) + 1]

\* C14: the command a start launches has, after --ctx_size, the context size
\* of a request times the number of parallel requests, after --parallel that
\* number, and --cont_batching exactly when continuous batching is on;
\* building it changes no field of the configuration, and every later start
\* of the instance builds the same command.
C14_BuildCommand ==
    [][/\ config' = config
       /\ (Leaves("start") /\ process' # None)
             => /\ HasFlag(command', "--ctx_size")
                /\ Val(ArgAfter(command', "--ctx_size"))
                      = config.ctx_size * config.parallel
                /\ HasFlag(command', "--parallel")
                /\ Val(ArgAfter(command', "--parallel")) = config.parallel
                /\ HasFlag(command', "--cont_batching") <=> config.cont_batching
                /\ command # <<>> => command' = command]_vars

\* The command has been built a second time, for ten parallel requests of
\* context size 1024 without continuous batching.
C14_Witness ==
    /\ spawned >= 2 /\ process = spawned
    /\ config.ctx_size = 1024 /\ config.parallel = 10
    /\ ~config.cont_batching
    /\ ArgAfter(command, "--ctx_size") = <<"1", "0", "2", "4", "0">>

\* A watcher thread has just read a line from a stream.
LineRead == printed' = printed + 1

\* C13: every line a watcher thread reads from either stream is handed to the
\* logger configured at that moment (the new one after a swap while a process
\* is attached), and to no other logger.
C13_LinesReachLogger ==
    [][LineRead => received' = [received EXCEPT ![logger] = @ + 1]]_vars

\* C15: under every interleaving of the launching task and the watcher
\* threads, the write of the initial status never overwrites a watcher's
\* update: the status of a handle never goes from running back to starting.
C15_RunningStays ==
    [][status = "running" => status' # "starting"]_vars

\* No watcher thread of subprocess p is running.
Drained(p) == \A st \in Streams : <<p, st>> \notin threads

\* stop joins only a killed subprocess's threads, detaches only after both
\* joins, and returns with the handle detached.
C18_KillJoinDetach ==
    [][/\ (pc = "join_stdout" /\ pc' # pc) => process \notin alive
       /\ (process # None /\ process' = None)
             => /\ process \notin alive'
                /\ \A st \in Streams : <<process, st>> \notin threads'
                /\ pc' = "idle" /\ result' = "ok"
       /\ (op = "stop" /\ pc # "idle" /\ pc' = "idle")
             => process' = None]_vars

\* C18: Server.stop on an attached instance kills, then joins, then detaches:
\* it returns only with the subprocess terminated and both watcher threads
\* finished, and, the streams of a killed subprocess ending, it does return.
C18_StopOrdered ==
    /\ C18_KillJoinDetach
    /\ (pc = "stop" ~> (pc = "idle" /\ process = None))

\* stop has returned from an instance that had a subprocess attached.
C18_Witness ==
    /\ pc = "idle" /\ op = "stop" /\ result = "ok"
    /\ spawned >= 1 /\ process = None
    /\ spawned \notin alive /\ Drained(spawned)

============================================================================
